---- MODULE Spec2Model ----
(***************************************************************************)
(* GltfPlugin (mapgl-gltf): the model-load coordinator with its two        *)
(* completion strategies, the plugin-ready gate, removeModel, the POI      *)
(* group calls, the pointer-event dispatch with its hit test, and the      *)
(* floor control.                                                          *)
(*                                                                         *)
(* One action is one scheduling turn of the single-threaded event loop: a  *)
(* public call up to its first await, a host callback, or the completion   *)
(* of one load together with the promise callbacks that run in the same    *)
(* microtask checkpoint.                                                   *)
(***************************************************************************)
EXTENDS Integers, Sequences, FiniteSets, TLC

(* ------------------------------ bounds -------------------------------- *)

\* add* calls made during one run
MaxCalls == 2

\* requests in one addModels batch
MaxBatch == 2

\* model identifiers the callers use
ModelIds == {1, 2}

\* POI group identifiers the callers use
PoiGroupIds == {1}

(* --------------------------- program values --------------------------- *)

\* options.linkedIds of the request for a model: undefined for some
\* requests, a list of 2D feature identifiers for others
NoLinkedIds == {-1}

LinkedIds(id) == IF id = 2 THEN NoLinkedIds ELSE {10 + id}

\* Map.get of an absent key
Undefined == [modelId |-> -1, serial |-> 0]

\* the THREE.AmbientLight node initThree adds to the scene
AmbientLight == [modelId |-> 0, serial |-> 0]

Strategies == {"waitAll", "dontWaitAll"}

(* ------------------------ rectangles and events ----------------------- *)

Rect(x, y, w, h) == [x |-> x, y |-> y, width |-> w, height |-> h]

\* the bounding rectangles the host container takes: the page's initial
\* layout, a small one off the origin, and a collapsed one
InitialRect == Rect(0, 0, 800, 600)

Rects == {InitialRect, Rect(1, 1, 2, 4), Rect(0, 0, 0, 0)}

\* client coordinates of the pointer events the host delivers: corners,
\* centres, inner and outer points of the rectangles above
Points == {<<400, 300>>, <<0, 600>>, <<800, 0>>, <<200, 450>>,
           <<1, 5>>, <<3, 1>>, <<2, 3>>, <<2, 2>>, <<0, 0>>}

\* the client coordinates of the events delivered over models and features
EventPoints == {<<200, 450>>}

\* the event source's rectangle while there is no event source
NoRect == Rect(0 - 1, 0 - 1, 0, 0)

\* the camera objects: the one the field initialiser creates, the one
\* initThree creates, and the camera of an event source that does not exist
CameraOfField == [madeBy |-> "field"]
CameraOfInitThree == [madeBy |-> "initThree"]
NoCamera == [madeBy |-> "none"]

\* a rational number n/d in lowest terms with d > 0; d = 0 stands for what
\* a division by zero gives (n = 0: NaN, else an infinity of n's sign)
RECURSIVE Gcd(_, _)
Gcd(a, b) == IF b = 0 THEN a ELSE Gcd(b, a % b)

Abs(a) == IF a < 0 THEN -a ELSE a

Sign(a) == IF a < 0 THEN -1 ELSE IF a > 0 THEN 1 ELSE 0

Rat(n, d) ==
    IF d = 0 THEN [n |-> Sign(n), d |-> 0]
    ELSE LET g == Gcd(Abs(n), Abs(d))
         IN [n |-> Sign(d) * (n \div g), d |-> Abs(d) \div g]

\* a / b, r * k and r - k of the floating-point code, on values it stores
\* exactly
RatDiv(a, b) == Rat(a, b)
RatTimes(r, k) == Rat(r.n * k, r.d)
RatMinus(r, k) == Rat(r.n - k * r.d, r.d)

RatLeq(r, q) == r.d > 0 /\ q.d > 0 /\ r.n * q.d <= q.n * r.d

\* e.targetData of a host pointer event: undefined, or the kind of the
\* target object and the declared type of its feature
NoTargetData == [type |-> "none", ftype |-> "none"]

TargetData == {NoTargetData,
               [type |-> "geojson", ftype |-> "immersive_poi"],
               [type |-> "geojson", ftype |-> "poi"],
               [type |-> "default", ftype |-> "immersive_poi"]}

PointerKinds == {"mousemove", "mouseover", "mouseout", "click"}

\* the geographic coordinate the host reports for a client position
LngLat(pt) == <<pt[1] + 82, 54 - pt[2]>>

\* intersects[0] of the raycaster for a ray through the event's position:
\* nothing, or an object of an attached model with its three.js type
NoHit == [obj |-> Undefined, type |-> "none"]

Hits(children) ==
    {NoHit} \cup {[obj |-> m, type |-> t] :
                     m \in children \ {AmbientLight}, t \in {"Mesh", "Line"}}

NoEvent == [kind |-> "none", clientX |-> 0, clientY |-> 0, lngLat |-> <<0, 0>>,
            targetData |-> NoTargetData, hit |-> NoHit]

Emit(name, e, target) ==
    [name |-> name, lngLat |-> e.lngLat,
     originalEvent |-> <<e.kind, e.clientX, e.clientY>>,
     targetData |-> e.targetData, target |-> target]

(* ----------------------------- floor levels --------------------------- *)

\* the floorId of a level that declares none
NoFloorId == -1

\* megaMethod's arguments to control.show
MegaModelId == 777
MegaFloorId == 0
MegaLevels == <<NoFloorId, 0, 1, 3, 4, 5, 6, 7, 8, 9, 10, 11, 12>>

\* megaMethod's argument to eventSource.setCurrentFloorId
MegaCurrentFloorId == 1234342

\* the level lists and level identifiers callers pass to the floor control
LevelLists == {MegaLevels, <<1, 2>>}
LevelChoices == {0, 1, 2, MegaCurrentFloorId}

\* a control just constructed: nothing shown, no active level
NewControl == [modelId |-> 0, levels |-> <<>>, current |-> {}]

\* a show that sets the active level before it validates it
FloorShowSetsFirst(ctrl, modelId, levels, initial) ==
    [ctrl |-> [modelId |-> modelId, levels |-> ctrl.levels, current |-> {initial}],
     raised |-> IF initial \in {levels[i] : i \in DOMAIN levels}
                THEN "none" ELSE "InvalidFloorLevel"]

\* show(modelId, levels, initialLevelId) on a control: the control after it
\* and the error it fails with
FloorShow(ctrl, modelId, levels, initial) ==
    IF initial \in {levels[i] : i \in DOMAIN levels}
    THEN [ctrl |-> [modelId |-> modelId, levels |-> levels, current |-> {initial}],
          raised |-> "none"]
    ELSE [ctrl |-> ctrl, raised |-> "InvalidFloorLevel"]

\* a setCurrentLevel that does not look the level up
FloorSetUnchecked(ctrl, level) ==
    [ctrl |-> [ctrl EXCEPT !.current = {level}],
     events |-> <<[modelId |-> ctrl.modelId, prev |-> ctrl.current, next |-> level]>>]

\* setCurrentLevel(levelId) on a control: the control after it and the
\* floor-change events it emits
FloorSet(ctrl, level) ==
    IF level \in {ctrl.levels[i] : i \in DOMAIN ctrl.levels}
    THEN [ctrl |-> [ctrl EXCEPT !.current = {level}],
          events |-> <<[modelId |-> ctrl.modelId, prev |-> ctrl.current,
                        next |-> level]>>]
    ELSE [ctrl |-> ctrl, events |-> <<>>]

\* the body of megaMethod after its await: a new control is constructed and
\* shown with the fixed levels, then eventSource.setCurrentFloorId is called;
\* the event source exists by then, the idle handler having created it
\* before any continuation runs
MegaBody(ctrls) ==
    LET shown == FloorShow(NewControl, MegaModelId, MegaLevels, MegaFloorId)
        set == FloorSet(shown.ctrl, MegaCurrentFloorId)
    IN [controls |-> Append(ctrls, set.ctrl), events |-> set.events,
        raised |-> shown.raised]

RECURSIVE MegaBodies(_, _)
\* n continuations of megaMethod, one after the other
MegaBodies(st, n) ==
    IF n = 0 THEN st
    ELSE LET r == MegaBody(st.controls)
         IN MegaBodies([controls |-> r.controls, events |-> st.events \o r.events,
                        raised |-> r.raised], n - 1)

VARIABLES
    strategy,       \* options.modelsLoadStrategy
    idleFired,      \* the host's one-time idle notification was delivered
    layerPending,   \* addLayer was called, its onAdd callback not yet
    handlersBound,  \* bindEvents / initEventHandlers has run
    ready,          \* waitForPluginInit is resolved
    calls,          \* the addModel / addModels / addPoiGroup calls, in call
                    \* order, each with the place it has reached
    nextSerial,     \* next object the loader creates
    models,         \* loader.getModels(): the registry, a Map's entries in
                    \* insertion order
    scene,          \* scene.children
    hidden,         \* the host's hidden 2D objects (last setHiddenObjects)
    poiGroups,      \* groups the PoiGroup holds
    container,      \* the host container's current bounding rectangle
    viewport,       \* this.viewport
    pointer,        \* this.pointer, the raycaster's device coordinates
    lastEvent,      \* the host pointer event dispatched last
    emitted,        \* what the plugin emitted to its subscribers for it
    controls,       \* the floor controls created so far, each live on the
                    \* map; this.control is the last one
    floorEvents,    \* the floor-change events the last handler emitted
    raised,         \* the error the last handler failed with
    camera,         \* this.camera, the camera render writes into
    hitCamera,      \* the camera the event source was constructed with
    synced,         \* the cameras render has written the host matrices into
    hitViewport,    \* the rectangle the event source holds for hit testing
    lastOp,         \* the handler that ran last, and its arguments
    fx              \* what that handler asked of the host and the scene

loadVars == <<calls, nextSerial, models, scene, hidden>>
hostVars == <<idleFired, layerPending, handlersBound, ready, camera, hitCamera,
              synced>>
poiVars == <<poiGroups>>
viewVars == <<container, viewport, hitViewport>>
eventVars == <<pointer, lastEvent, emitted>>
floorVars == <<controls, floorEvents, raised>>

vars == <<strategy, idleFired, layerPending, handlersBound, ready, calls,
          nextSerial, models, scene, hidden, poiGroups, container, viewport,
          pointer, lastEvent, emitted, controls, floorEvents, raised,
          camera, hitCamera, synced, hitViewport, lastOp, fx>>

Op(name, a, b) == [op |-> name, a |-> a, b |-> b, list |-> <<>>]
OpList(name, a, b, list) == [op |-> name, a |-> a, b |-> b, list |-> list]

(* ------------------------------ helpers ------------------------------- *)

RECURSIVE SeqsNoDup(_, _)
\* the sequences of n distinct elements of S
SeqsNoDup(S, n) ==
    IF n = 0 THEN {<<>>}
    ELSE UNION {{<<x>> \o t : t \in SeqsNoDup(S \ {x}, n - 1)} : x \in S}

\* the request lists callers pass to addModels
Batches == UNION {SeqsNoDup(ModelIds, n) : n \in 1..MaxBatch}

\* the request lists of a caller that loads a building in one batch of up
\* to three models
WideIds == ModelIds \cup {3}

WideBatches == UNION {SeqsNoDup(WideIds, n) : n \in 1..Cardinality(WideIds)}

Range(s) == {s[i] : i \in DOMAIN s}

\* Map.get(String(id))
MapGet(reg, id) ==
    IF \E i \in DOMAIN reg : reg[i].modelId = id
    THEN reg[CHOOSE i \in DOMAIN reg : reg[i].modelId = id]
    ELSE Undefined

\* Map.set(String(id), model): an existing key keeps its place
MapSet(reg, id, m) ==
    IF \E i \in DOMAIN reg : reg[i].modelId = id
    THEN [i \in DOMAIN reg |-> IF reg[i].modelId = id THEN m ELSE reg[i]]
    ELSE Append(reg, m)

\* Loader.loadModel on success: the decoded model, carrying its identifier,
\* is put into the registry under that identifier
LoaderLoaded(reg, id, serial) == MapSet(reg, id, [modelId |-> id, serial |-> serial])

\* the effects a handler leaves in fx
FxHide(ids) == [op |-> "hide", ids |-> ids, obj |-> Undefined]
FxAttach(m) == [op |-> "attach", ids |-> {}, obj |-> m]
FxRerender == [op |-> "rerender", ids |-> {}, obj |-> Undefined]

FxHidden(f, before) ==
    LET hs == {i \in DOMAIN f : f[i].op = "hide"}
    IN IF hs = {} THEN before
       ELSE f[CHOOSE i \in hs : \A j \in hs : j <= i].ids

FxAttached(f) == {f[i].obj : i \in {j \in DOMAIN f : f[j].op = "attach"}}

Init ==
    /\ strategy \in Strategies
    /\ idleFired = FALSE
    /\ layerPending = FALSE
    /\ handlersBound = FALSE
    /\ ready = FALSE
    /\ calls = <<>>
    /\ nextSerial = 1
    /\ models = <<>>
    /\ scene = {}
    /\ hidden = {}
    /\ poiGroups = {}
    /\ container = InitialRect
    /\ viewport = container
    /\ pointer = [x |-> Rat(0, 1), y |-> Rat(0, 1)]
    /\ lastEvent = NoEvent
    /\ emitted = <<>>
    /\ controls = <<>>
    /\ floorEvents = <<>>
    /\ raised = "none"
    /\ camera = CameraOfField
    /\ hitCamera = NoCamera
    /\ synced = {}
    /\ hitViewport = NoRect
    /\ lastOp = Op("constructor", 0, 0)
    /\ fx = <<>>

(* ------------------------- the plugin-ready gate ----------------------- *)

\* a call that does not wait for the ready signal
AwaitPluginInitSkipped == TRUE

\* await this.waitForPluginInit: the caller goes on once the promise is
\* resolved
AwaitPluginInit == ready

\* a continuation that is dropped: the call stays suspended
ContinueDropped(call) == call

\* the continuation of an async call after its await: addModel and addModels
\* start loader.loadModel for every request, addPoiGroup hands the group to
\* the PoiGroup, megaMethod opens its floor control
Continue(call) ==
    IF call.kind \in {"addPoiGroup", "megaMethod"}
    THEN [call EXCEPT !.pc = "done", !.promise = "fulfilled"]
    ELSE [call EXCEPT !.pc = "loading",
                      !.loads = [i \in DOMAIN call.reqs |-> "pending"]]

\* an async add call, run up to its await and, when the promise is already
\* resolved, on through its continuation (a microtask of the same turn)
NewCall(kind, reqs) ==
    LET call == [kind |-> kind, reqs |-> reqs, pc |-> "waiting",
                 loads |-> [i \in DOMAIN reqs |-> "idle"],
                 objs |-> [i \in DOMAIN reqs |-> Undefined],
                 promise |-> "pending", attached |-> <<>>, early |-> ~ready]
    IN IF AwaitPluginInit THEN Continue(call) ELSE call

\* the groups this.poiGroup.addPoiGroup has been given by the calls cs
GroupsOf(cs) ==
    {cs[c].reqs[1] : c \in {d \in DOMAIN cs : cs[d].kind = "addPoiGroup"
                                             /\ cs[d].pc = "done"}}

\* initThree: the camera and renderer are built, the ambient light is added
\* to the scene, and onPluginInit resolves waitForPluginInit; the calls
\* suspended at their await go on, in call order, before the turn ends
InitThree ==
    /\ camera' = CameraOfInitThree
    /\ scene' = scene \cup {AmbientLight}
    /\ ready' = TRUE
    /\ calls' = [c \in DOMAIN calls |->
                    IF calls[c].pc = "waiting" THEN Continue(calls[c]) ELSE calls[c]]
    /\ poiGroups' = poiGroups \cup GroupsOf(calls')
    /\ LET n == Cardinality({c \in DOMAIN calls : calls[c].kind = "megaMethod"
                                                  /\ calls[c].pc = "waiting"})
           r == MegaBodies([controls |-> controls, events |-> <<>>,
                            raised |-> "none"], n)
       IN /\ controls' = r.controls
          /\ floorEvents' = r.events
          /\ raised' = r.raised

\* the handler of map.once('idle'): addIcons, addThreeJsLayer, then the
\* event handlers. The host delivers the layer's onAdd either inside addLayer
\* or on a later turn.
HostIdle(sync) ==
    /\ ~idleFired
    /\ idleFired' = TRUE
    /\ IF sync
       THEN InitThree /\ layerPending' = FALSE
       ELSE layerPending' = TRUE
            /\ UNCHANGED <<camera, scene, ready, calls, poiGroups, floorVars>>
    /\ handlersBound' = TRUE
    /\ hitViewport' = viewport
    /\ hitCamera' = camera'
    /\ lastOp' = Op("idle", 0, 0)
    /\ fx' = <<>>
    /\ UNCHANGED <<container, viewport, eventVars>>
    /\ UNCHANGED <<strategy, nextSerial, models, hidden, synced>>

\* the custom layer's onAdd callback
HostOnAdd ==
    /\ layerPending
    /\ layerPending' = FALSE
    /\ InitThree
    /\ lastOp' = Op("onAdd", 0, 0)
    /\ fx' = <<>>
    /\ UNCHANGED <<viewVars, eventVars>>
    /\ UNCHANGED <<strategy, idleFired, handlersBound, nextSerial, models,
                   hidden, hitCamera, synced>>

(* ------------------------ the load coordinator ------------------------ *)

\* addModel(options)
AddModel(id) ==
    /\ Len(calls) < MaxCalls
    /\ calls' = Append(calls, NewCall("addModel", <<id>>))
    /\ lastOp' = Op("addModel", Len(calls) + 1, id)
    /\ fx' = <<>>
    /\ UNCHANGED <<viewVars, eventVars, floorVars>>
    /\ UNCHANGED <<strategy, hostVars, nextSerial, models, scene, hidden,
                   poiVars>>

\* addModels(modelOptions)
AddModels(batch) ==
    /\ Len(calls) < MaxCalls
    /\ calls' = Append(calls, NewCall("addModels", batch))
    /\ lastOp' = Op("addModels", Len(calls) + 1, Len(batch))
    /\ fx' = <<>>
    /\ UNCHANGED <<viewVars, eventVars, floorVars>>
    /\ UNCHANGED <<strategy, hostVars, nextSerial, models, scene, hidden,
                   poiVars>>

\* a per-load callback that requests the redraw before it attaches the model
RevealOneRedrawsFirst(reg, id) ==
    (IF LinkedIds(id) # NoLinkedIds THEN <<FxHide(LinkedIds(id))>> ELSE <<>>)
    \o <<FxRerender>>
    \o (IF MapGet(reg, id) # Undefined
        THEN <<FxAttach(MapGet(reg, id))>> ELSE <<>>)

\* the per-load callback of addModel, and of addModels under dontWaitAll:
\* hide the linked 2D features, attach the registry's model of that id,
\* request a redraw
RevealOne(reg, id) ==
    (IF LinkedIds(id) # NoLinkedIds THEN <<FxHide(LinkedIds(id))>> ELSE <<>>)
    \o (IF MapGet(reg, id) # Undefined
        THEN <<FxAttach(MapGet(reg, id))>> ELSE <<>>)
    \o <<FxRerender>>

RECURSIVE HideAll(_)
\* for (let options of modelOptions) if (options.linkedIds) setHiddenObjects
HideAll(reqs) ==
    IF reqs = <<>> THEN <<>>
    ELSE (IF LinkedIds(Head(reqs)) # NoLinkedIds
          THEN <<FxHide(LinkedIds(Head(reqs)))>> ELSE <<>>)
         \o HideAll(Tail(reqs))

\* for (let [_id, model] of this.models) this.scene.add(model)
AttachRegistry(reg) == [i \in DOMAIN reg |-> FxAttach(reg[i])]

\* a Promise.all callback that attaches the models before it hides the
\* linked 2D features
RevealAllAttachesFirst(reg, reqs) ==
    AttachRegistry(reg) \o HideAll(reqs) \o <<FxRerender>>

\* the callback of Promise.all(loadedModels) under waitAll
RevealAll(reg, reqs) == HideAll(reqs) \o AttachRegistry(reg) \o <<FxRerender>>

\* per-load callbacks that stop revealing once a sibling load has failed
OnResolvedStopsAfterFailure(c, k, reg, allDone) ==
    LET call == calls[c]
        id == call.reqs[k]
    IN IF call.kind = "addModel" THEN RevealOne(reg, id)
       ELSE (IF strategy = "dontWaitAll" /\ call.promise # "rejected"
             THEN RevealOne(reg, id) ELSE <<>>)
            \o (IF allDone /\ strategy = "waitAll"
                THEN RevealAll(reg, call.reqs) ELSE <<>>)

\* the callbacks that run when load k of call c resolves, the registry being
\* reg by then; allDone: it was the call's last pending load and none failed
OnResolved(c, k, reg, allDone) ==
    LET call == calls[c]
        id == call.reqs[k]
    IN IF call.kind = "addModel" THEN RevealOne(reg, id)
       ELSE (IF strategy = "dontWaitAll" THEN RevealOne(reg, id) ELSE <<>>)
            \o (IF allDone /\ strategy = "waitAll"
                THEN RevealAll(reg, call.reqs) ELSE <<>>)

\* loader.loadModel resolves for request k of call c: the loader has put the
\* new model into the registry
LoadResolve(c, k) ==
    /\ calls[c].pc = "loading"
    /\ calls[c].loads[k] = "pending"
    /\ LET id == calls[c].reqs[k]
           reg == LoaderLoaded(models, id, nextSerial)
           m == MapGet(reg, id)
           allDone == \A j \in DOMAIN calls[c].loads :
                          j # k => calls[c].loads[j] = "resolved"
           f == OnResolved(c, k, reg, allDone)
       IN /\ models' = reg
          /\ nextSerial' = nextSerial + 1
          /\ fx' = f
          /\ scene' = scene \cup FxAttached(f)
          /\ hidden' = FxHidden(f, hidden)
          /\ calls' = [calls EXCEPT
                 ![c].loads[k] = "resolved",
                 ![c].objs[k] = m,
                 ![c].attached = @ \o [i \in 1..Cardinality({j \in DOMAIN f : f[j].op = "attach"}) |->
                                          f[CHOOSE j \in DOMAIN f :
                                              /\ f[j].op = "attach"
                                              /\ Cardinality({h \in 1..j : f[h].op = "attach"}) = i].obj],
                 ![c].promise = IF allDone /\ @ = "pending" THEN "fulfilled" ELSE @]
    /\ lastOp' = Op("loadResolve", c, k)
    /\ UNCHANGED <<viewVars, eventVars, floorVars>>
    /\ UNCHANGED <<strategy, hostVars, poiVars>>

\* loader.loadModel rejects for request k of call c
LoadFail(c, k) ==
    /\ calls[c].pc = "loading"
    /\ calls[c].loads[k] = "pending"
    /\ calls' = [calls EXCEPT
           ![c].loads[k] = "failed",
           ![c].promise = IF @ = "pending" THEN "rejected" ELSE @]
    /\ lastOp' = Op("loadFail", c, k)
    /\ fx' = <<>>
    /\ UNCHANGED <<viewVars, eventVars, floorVars>>
    /\ UNCHANGED <<strategy, hostVars, nextSerial, models, scene, hidden,
                   poiVars>>

\* a removeModel that requests the redraw before it looks the model up
RemoveModelAlwaysRerenders(id) ==
    /\ LET model == MapGet(models, id)
       IN /\ scene' = scene \ {model}
          /\ fx' = <<FxRerender>>
    /\ lastOp' = Op("removeModel", id, 0)
    /\ UNCHANGED <<viewVars, eventVars, floorVars>>
    /\ UNCHANGED <<strategy, hostVars, calls, nextSerial, models, hidden,
                   poiVars>>

\* a removeModel that cancels the loads of the identifier that are in flight
RemoveModelCancelsLoads(id) ==
    /\ LET model == MapGet(models, id)
       IN IF model = Undefined
          THEN fx' = <<>> /\ UNCHANGED scene
          ELSE /\ scene' = scene \ {model}
               /\ fx' = <<FxRerender>>
    /\ calls' = [c \in DOMAIN calls |->
                    [calls[c] EXCEPT !.loads =
                        [k \in DOMAIN @ |->
                            IF @[k] = "pending" /\ calls[c].reqs[k] = id
                            THEN "failed" ELSE @[k]]]]
    /\ lastOp' = Op("removeModel", id, 0)
    /\ UNCHANGED <<viewVars, eventVars, floorVars>>
    /\ UNCHANGED <<strategy, hostVars, nextSerial, models, hidden, poiVars>>

\* a removeModel that detaches every node loaded under the identifier
RemoveModelDetachesAllNodes(id) ==
    /\ LET model == MapGet(models, id)
       IN IF model = Undefined
          THEN fx' = <<>> /\ UNCHANGED scene
          ELSE /\ scene' = {m \in scene : m.modelId # id}
               /\ fx' = <<FxRerender>>
    /\ lastOp' = Op("removeModel", id, 0)
    /\ UNCHANGED <<viewVars, eventVars, floorVars>>
    /\ UNCHANGED <<strategy, hostVars, calls, nextSerial, models, hidden,
                   poiVars>>

\* removeModel(id)
RemoveModel(id) ==
    /\ LET model == MapGet(models, id)
       IN IF model = Undefined
          THEN fx' = <<>> /\ UNCHANGED scene
          ELSE /\ scene' = scene \ {model}
               /\ fx' = <<FxRerender>>
    /\ lastOp' = Op("removeModel", id, 0)
    /\ UNCHANGED <<viewVars, eventVars, floorVars>>
    /\ UNCHANGED <<strategy, hostVars, calls, nextSerial, models, hidden,
                   poiVars>>

(* ----------------------------- POI groups ----------------------------- *)

\* addPoiGroup(options)
AddPoiGroup(g) ==
    /\ Len(calls) < MaxCalls
    /\ calls' = Append(calls, NewCall("addPoiGroup", <<g>>))
    /\ poiGroups' = poiGroups \cup GroupsOf(calls')
    /\ lastOp' = Op("addPoiGroup", Len(calls) + 1, g)
    /\ fx' = <<>>
    /\ UNCHANGED <<viewVars, eventVars, floorVars>>
    /\ UNCHANGED <<strategy, hostVars, nextSerial, models, scene, hidden>>

\* removePoiGroup(options)
RemovePoiGroup(g) ==
    /\ poiGroups' = poiGroups \ {g}
    /\ lastOp' = Op("removePoiGroup", g, 0)
    /\ fx' = <<>>
    /\ UNCHANGED <<viewVars, eventVars, floorVars>>
    /\ UNCHANGED <<strategy, hostVars, loadVars>>

(* ------------------------ viewport and pointer ------------------------ *)

\* the host lays the container out anew (the page scrolls or resizes)
HostLayout(rect) ==
    /\ rect # container
    /\ container' = rect
    /\ lastOp' = Op("layout", 0, 0)
    /\ fx' = <<>>
    /\ UNCHANGED <<strategy, hostVars, loadVars, poiVars, viewport,
                   hitViewport, eventVars, floorVars>>

\* an invalidateViewport that does not hand the rectangle to the event source
HostResizeForgetsEventSource ==
    /\ handlersBound
    /\ viewport' = container
    /\ lastOp' = Op("resize", 0, 0)
    /\ fx' = <<>>
    /\ UNCHANGED <<strategy, hostVars, loadVars, poiVars, container,
                   hitViewport, eventVars, floorVars>>

\* invalidateViewport, the handler of the host's resize event
HostResize ==
    /\ handlersBound
    /\ viewport' = container
    /\ hitViewport' = viewport'
    /\ lastOp' = Op("resize", 0, 0)
    /\ fx' = <<>>
    /\ UNCHANGED <<strategy, hostVars, loadVars, poiVars, container, eventVars,
                   floorVars>>

\* render, the custom layer's callback of every frame: the host matrices
\* are written into this.camera, the draw viewport is set from this.viewport
\* and the scene is drawn
HostRender ==
    /\ ready
    /\ synced' = synced \cup {camera}
    /\ lastOp' = Op("render", 0, 0)
    /\ fx' = <<>>
    /\ UNCHANGED <<strategy, idleFired, layerPending, handlersBound, ready,
                   camera, hitCamera, loadVars, poiVars, viewVars, eventVars,
                   floorVars>>

\* device coordinates without the flip of the Y axis
PointerOfUnflipped(clientX, clientY, vp) ==
    LET localX == clientX - vp.x
        localY == clientY - vp.y
    IN [x |-> RatMinus(RatTimes(RatDiv(localX, vp.width), 2), 1),
        y |-> RatMinus(RatTimes(RatDiv(localY, vp.height), 2), 1)]

\* getEventTargetMesh: the device coordinates of the cursor
PointerOf(clientX, clientY, vp) ==
    LET localX == clientX - vp.x
        localY == vp.height - (clientY - vp.y)
    IN [x |-> RatMinus(RatTimes(RatDiv(localX, vp.width), 2), 1),
        y |-> RatMinus(RatTimes(RatDiv(localY, vp.height), 2), 1)]

\* getEventTargetMesh: the first intersection, kept only if it is a mesh
EventTargetMesh(hit) == IF hit = NoHit \/ hit.type # "Mesh" THEN NoHit ELSE hit

\* isGeoJsonPoi
IsGeoJsonPoi(e) ==
    e.targetData.type = "geojson" /\ e.targetData.ftype = "immersive_poi"

\* the POI handler bindEvents registers for each of the four pointer events
PoiHandler(e) ==
    IF IsGeoJsonPoi(e)
    THEN <<Emit(IF e.kind = "click" THEN "clickPoi"
                ELSE IF e.kind = "mousemove" THEN "mousemovePoi"
                ELSE IF e.kind = "mouseover" THEN "mouseoverPoi"
                ELSE "mouseoutPoi", e, -1)>>
    ELSE <<>>

\* a click handler that leaves the model event out when the click is on a POI
ModelHandlerUnlessPoi(e) ==
    IF e.kind = "click" /\ EventTargetMesh(e.hit) # NoHit /\ ~IsGeoJsonPoi(e)
    THEN <<Emit("clickModel", e, e.hit.obj.modelId)>>
    ELSE <<>>

\* model handlers whose mousemove emits like click
ModelHandlerAlsoMousemove(e) ==
    IF e.kind \in {"click", "mousemove"} /\ EventTargetMesh(e.hit) # NoHit
    THEN <<Emit(IF e.kind = "click" THEN "clickModel" ELSE "mousemoveModel",
                e, e.hit.obj.modelId)>>
    ELSE <<>>

\* the model handlers bindEvents registers: click emits clickModel for a
\* mesh, mousemove hit-tests and only logs, mouseover and mouseout have none
ModelHandler(e) ==
    IF e.kind = "click" /\ EventTargetMesh(e.hit) # NoHit
    THEN <<Emit("clickModel", e, e.hit.obj.modelId)>>
    ELSE <<>>

\* the kinds of event whose model handler runs getEventTargetMesh
HitTested == {"click", "mousemove"}

\* the host delivers one pointer event to the handlers bindEvents
\* registered, in the order of their registration
HostPointer(kind, pt, td, hit) ==
    /\ handlersBound
    /\ LET e == [kind |-> kind, clientX |-> pt[1], clientY |-> pt[2],
                 lngLat |-> LngLat(pt), targetData |-> td, hit |-> hit]
       IN /\ lastEvent' = e
          /\ emitted' = PoiHandler(e) \o ModelHandler(e)
          /\ pointer' = IF kind \in HitTested
                        THEN PointerOf(pt[1], pt[2], viewport) ELSE pointer
    /\ lastOp' = Op("pointer", 0, 0)
    /\ fx' = <<>>
    /\ UNCHANGED <<strategy, hostVars, loadVars, poiVars, viewVars, floorVars>>

(* ---------------------------- floor control --------------------------- *)

\* megaMethod(scene)
MegaMethod ==
    /\ Len(calls) < MaxCalls
    /\ calls' = Append(calls, NewCall("megaMethod", <<>>))
    /\ LET r == MegaBodies([controls |-> controls, events |-> <<>>,
                            raised |-> "none"],
                           IF calls'[Len(calls')].pc = "done" THEN 1 ELSE 0)
       IN /\ controls' = r.controls
          /\ floorEvents' = r.events
          /\ raised' = r.raised
    /\ lastOp' = Op("megaMethod", Len(calls) + 1, 0)
    /\ fx' = <<>>
    /\ UNCHANGED <<strategy, hostVars, nextSerial, models, scene, hidden,
                   poiVars, viewVars, eventVars>>

\* show(modelId, levels, initialLevelId) on control i
ControlShow(i, modelId, levels, initial) ==
    /\ LET r == FloorShow(controls[i], modelId, levels, initial)
       IN /\ controls' = [controls EXCEPT ![i] = r.ctrl]
          /\ raised' = r.raised
    /\ floorEvents' = <<>>
    /\ lastOp' = OpList("show", i, initial, levels)
    /\ fx' = <<>>
    /\ UNCHANGED <<strategy, hostVars, loadVars, poiVars, viewVars, eventVars>>

\* setCurrentLevel(levelId) on control i
ControlSetCurrentLevel(i, level) ==
    /\ LET r == FloorSet(controls[i], level)
       IN /\ controls' = [controls EXCEPT ![i] = r.ctrl]
          /\ floorEvents' = r.events
    /\ raised' = "none"
    /\ lastOp' = Op("setCurrentLevel", i, level)
    /\ fx' = <<>>
    /\ UNCHANGED <<strategy, hostVars, loadVars, poiVars, viewVars, eventVars>>

(* --------------------------- specifications --------------------------- *)

Next ==
    \/ \E sync \in BOOLEAN : HostIdle(sync)
    \/ HostOnAdd
    \/ \E id \in ModelIds : AddModel(id)
    \/ \E batch \in Batches : AddModels(batch)
    \/ \E c \in DOMAIN calls : \E k \in DOMAIN calls[c].reqs : LoadResolve(c, k)
    \/ \E c \in DOMAIN calls : \E k \in DOMAIN calls[c].reqs : LoadFail(c, k)
    \/ \E id \in ModelIds : RemoveModel(id)
    \/ \E g \in PoiGroupIds : AddPoiGroup(g)
    \/ \E g \in PoiGroupIds : RemovePoiGroup(g)

Spec == Init /\ [][Next]_vars

\* the plugin under its default options while the host lays its container
\* out, resizes it and delivers the hit-tested pointer events over it
InitDefault == Init /\ strategy = "waitAll"

NextNdc ==
    \/ \E sync \in BOOLEAN : HostIdle(sync)
    \/ HostOnAdd
    \/ \E rect \in Rects : HostLayout(rect)
    \/ HostResize
    \/ \E kind \in HitTested, pt \in Points, hit \in Hits(scene) :
           HostPointer(kind, pt, NoTargetData, hit)

SpecNdc == InitDefault /\ [][NextNdc]_vars

\* the plugin under its default options, with single models added and the
\* host delivering the four pointer events over 2D features and models
NextPointer ==
    \/ \E sync \in BOOLEAN : HostIdle(sync)
    \/ HostOnAdd
    \/ \E id \in ModelIds : AddModel(id)
    \/ \E c \in DOMAIN calls : \E k \in DOMAIN calls[c].reqs : LoadResolve(c, k)
    \/ \E kind \in PointerKinds, pt \in EventPoints, td \in TargetData,
          hit \in Hits(scene) :
           HostPointer(kind, pt, td, hit)

SpecPointer == InitDefault /\ [][NextPointer]_vars

\* the plugin under its default options with its floor control opened and
\* driven
NextFloor ==
    \/ \E sync \in BOOLEAN : HostIdle(sync)
    \/ HostOnAdd
    \/ MegaMethod
    \/ \E i \in DOMAIN controls, modelId \in {MegaModelId, 1},
          levels \in LevelLists, initial \in LevelChoices :
           ControlShow(i, modelId, levels, initial)
    \/ \E i \in DOMAIN controls, level \in LevelChoices :
           ControlSetCurrentLevel(i, level)

SpecFloor == InitDefault /\ [][NextFloor]_vars

\* the plugin under either strategy with a caller that adds single models
\* and makes one addModels call with a batch of up to three models
NextBatch ==
    \/ \E sync \in BOOLEAN : HostIdle(sync)
    \/ HostOnAdd
    \/ \E id \in ModelIds : AddModel(id)
    \/ \E batch \in WideBatches :
           /\ \A c \in DOMAIN calls : calls[c].kind # "addModels"
           /\ AddModels(batch)
    \/ \E c \in DOMAIN calls : \E k \in DOMAIN calls[c].reqs : LoadResolve(c, k)
    \/ \E c \in DOMAIN calls : \E k \in DOMAIN calls[c].reqs : LoadFail(c, k)

SpecBatch == Init /\ [][NextBatch]_vars

\* the plugin under its default options with a caller that makes one add
\* call, while the host lays the container out, resizes it, draws frames and
\* delivers pointer events
NextView ==
    \/ \E sync \in BOOLEAN : HostIdle(sync)
    \/ HostOnAdd
    \/ \E rect \in Rects \ {Rect(0, 0, 0, 0)} : HostLayout(rect)
    \/ HostResize
    \/ HostRender
    \/ \E kind \in PointerKinds, pt \in EventPoints :
           HostPointer(kind, pt, NoTargetData, NoHit)
    \/ \E id \in ModelIds : calls = <<>> /\ AddModel(id)
    \/ \E batch \in Batches : calls = <<>> /\ AddModels(batch)
    \/ \E c \in DOMAIN calls : \E k \in DOMAIN calls[c].reqs : LoadResolve(c, k)
    \/ \E id \in ModelIds : RemoveModel(id)
    \/ \E g \in PoiGroupIds : calls = <<>> /\ AddPoiGroup(g)
    \/ \E g \in PoiGroupIds : RemovePoiGroup(g)

SpecView == InitDefault /\ [][NextView]_vars

\* the plugin under either strategy with callers that add models and POI
\* groups, on a host that delivers its idle notification and, once addLayer
\* was called, the layer's onAdd
NextLive ==
    \/ \E sync \in BOOLEAN : HostIdle(sync)
    \/ HostOnAdd
    \/ \E id \in ModelIds : AddModel(id)
    \/ \E batch \in Batches : AddModels(batch)
    \/ \E g \in PoiGroupIds : AddPoiGroup(g)
    \/ \E c \in DOMAIN calls : \E k \in DOMAIN calls[c].reqs : LoadResolve(c, k)
    \/ \E c \in DOMAIN calls : \E k \in DOMAIN calls[c].reqs : LoadFail(c, k)

SpecLive ==
    /\ Init
    /\ [][NextLive]_vars
    /\ WF_vars(\E sync \in BOOLEAN : HostIdle(sync))
    /\ WF_vars(HostOnAdd)

(* ------------------------------- claims ------------------------------- *)

Settled(call) == \A k \in DOMAIN call.loads : call.loads[k] \in {"resolved", "failed"}

Failed(call) == {k \in DOMAIN call.loads : call.loads[k] = "failed"}

Resolved(call) == {k \in DOMAIN call.loads : call.loads[k] = "resolved"}

\* an add request made after call c names the identifier id
NamedLater(c, id) ==
    \E d \in DOMAIN calls :
        /\ d > c
        /\ calls[d].kind \in {"addModel", "addModels"}
        /\ id \in Range(calls[d].reqs)

\* C1: under waitAll, once a load of an addModels batch has failed, the
\* batch's promise is rejected and no model the batch loaded is in the scene
\* graph, as long as no later add request names its identifier.
C1_FailedBatchRevealsNothing ==
    \A c \in DOMAIN calls :
        (strategy = "waitAll" /\ calls[c].kind = "addModels" /\ Failed(calls[c]) # {})
        => /\ calls[c].promise = "rejected"
           /\ \A k \in Resolved(calls[c]) :
                  ~NamedLater(c, calls[c].reqs[k]) => calls[c].objs[k] \notin scene

\* C2: under waitAll, a model loaded by an addModels batch is in the scene
\* graph only if every load of that batch has resolved.
C2_RevealOnlyAfterWholeBatch ==
    \A c \in DOMAIN calls :
        (strategy = "waitAll" /\ calls[c].kind = "addModels")
        => \A k \in Resolved(calls[c]) :
               calls[c].objs[k] \in scene
               => \A j \in DOMAIN calls[c].loads : calls[c].loads[j] = "resolved"

\* C3: under dontWaitAll, every member of an addModels batch is attached in
\* the step in which its load resolves, whether or not a sibling has failed;
\* a settled batch with exactly one failed load has attached exactly the
\* N-1 models it loaded, and its promise is rejected.
C3_DontWaitAllPartialReveal ==
    \A c \in DOMAIN calls :
        (strategy = "dontWaitAll" /\ calls[c].kind = "addModels")
        => /\ \A k \in DOMAIN calls[c].reqs :
                  lastOp = Op("loadResolve", c, k)
                  => /\ calls[c].objs[k] \in scene
                     /\ FxAttached(fx) = {calls[c].objs[k]}
           /\ (Settled(calls[c]) /\ Cardinality(Failed(calls[c])) = 1)
              => /\ calls[c].promise = "rejected"
                 /\ Len(calls[c].attached) = Len(calls[c].reqs) - 1
                 /\ Range(calls[c].attached)
                    = {calls[c].objs[k] : k \in Resolved(calls[c])}

\* a two-member batch in which a load has just resolved and been attached
\* after its sibling failed
C3_Witness ==
    \E c \in DOMAIN calls :
        /\ strategy = "dontWaitAll"
        /\ calls[c].kind = "addModels"
        /\ Len(calls[c].reqs) = 2
        /\ lastOp.op = "loadResolve" /\ lastOp.a = c
        /\ Failed(calls[c]) # {}
        /\ calls[c].objs[lastOp.b] \in scene

\* C4: before the ready signal no add call has started a load, put a model
\* into the registry, attached a node, hidden a 2D feature or added a POI
\* group.
C4_ReadinessGating ==
    ~ready =>
        /\ \A c \in DOMAIN calls :
               /\ calls[c].pc = "waiting"
               /\ \A k \in DOMAIN calls[c].loads : calls[c].loads[k] = "idle"
        /\ nextSerial = 1
        /\ models = <<>>
        /\ scene = {}
        /\ hidden = {}
        /\ poiGroups = {}

\* add calls of two kinds are suspended while the plugin is not ready
C4_Witness ==
    /\ ~ready
    /\ idleFired
    /\ \E c, d \in DOMAIN calls :
           /\ calls[c].kind \in {"addModel", "addModels"}
           /\ calls[d].kind = "addPoiGroup"

\* C5: removeModel of an identifier that is not in the registry changes
\* neither the scene graph nor the registry nor the host's hidden objects
\* and requests no redraw.
C5_RemoveAbsentIsNoOp ==
    [][(lastOp'.op = "removeModel" /\ MapGet(models, lastOp'.a) = Undefined)
       => (fx' = <<>> /\ UNCHANGED <<scene, models, hidden, calls, poiGroups>>)]_vars

\* removeModel of an unregistered identifier while a model is in the scene
C5_Witness ==
    /\ lastOp.op = "removeModel"
    /\ MapGet(models, lastOp.a) = Undefined
    /\ \E m \in scene : m # AmbientLight

\* C6: setCurrentLevel with a level that is not in the control's level list
\* changes nothing, emits nothing and raises nothing; with a member it makes
\* that level the active one and emits one floor-change event with the
\* previous and the new level. megaMethod's own setCurrentFloorId(1234342)
\* is of the first kind: the control keeps the level it was shown with.
C6_SetCurrentLevel ==
    [][/\ lastOp'.op = "setCurrentLevel"
          => LET i == lastOp'.a
                 level == lastOp'.b
             IN /\ raised' = "none"
                /\ IF level \in Range(controls[i].levels)
                   THEN /\ controls'[i].current = {level}
                        /\ floorEvents' = <<[modelId |-> controls[i].modelId,
                                             prev |-> controls[i].current,
                                             next |-> level]>>
                   ELSE /\ controls' = controls
                        /\ floorEvents' = <<>>
       /\ (lastOp'.op = "megaMethod" /\ calls'[lastOp'.a].pc = "done")
          => /\ controls'[Len(controls')].current = {MegaFloorId}
             /\ floorEvents' = <<>>]_vars

\* setCurrentLevel(2) on a control that shows megaMethod's levels, which
\* have no level 2
C6_Witness ==
    /\ lastOp.op = "setCurrentLevel"
    /\ lastOp.b = 2
    /\ controls[lastOp.a].levels = MegaLevels
    /\ controls[lastOp.a].current = {MegaFloorId}
    /\ floorEvents = <<>>

\* the active level of every control is unset or one of its levels
CurrentLevelInLevels ==
    \A i \in DOMAIN controls :
        /\ controls[i].current \subseteq Range(controls[i].levels)
        /\ Cardinality(controls[i].current) <= 1

\* C7: after any sequence of show and setCurrentLevel calls the active level
\* of a control is unset or a member of its level sequence; show with an
\* initial level outside the levels it is given fails with InvalidFloorLevel
\* and leaves the control as it was, any other show sets the levels and the
\* active level.
C7_FloorLevelInvariant ==
    [][/\ CurrentLevelInLevels'
       /\ lastOp'.op = "show"
          => LET i == lastOp'.a
                 initial == lastOp'.b
                 levels == lastOp'.list
             IN IF initial \in Range(levels)
                THEN /\ raised' = "none"
                     /\ controls'[i].levels = levels
                     /\ controls'[i].current = {initial}
                ELSE /\ raised' = "InvalidFloorLevel"
                     /\ controls' = controls]_vars

\* a show that failed on a control that has an active level
C7_Witness ==
    /\ lastOp.op = "show"
    /\ raised = "InvalidFloorLevel"
    /\ controls[lastOp.a].current # {}
    /\ lastOp.b \notin controls[lastOp.a].current

\* the event lies within the rectangle, its border included
Inside(e, vp) ==
    /\ vp.x <= e.clientX /\ e.clientX <= vp.x + vp.width
    /\ vp.y <= e.clientY /\ e.clientY <= vp.y + vp.height

One == Rat(1, 1)
MinusOne == Rat(-1, 1)
Zero == Rat(0, 1)

\* C8: after a hit-tested pointer event inside a viewport of positive width
\* and height, pointer.x = 2*(clientX - x)/width - 1 and
\* pointer.y = 2*(height - (clientY - y))/height - 1, both within [-1, 1];
\* the bottom-left corner gives (-1,-1), the top-right corner (1,1), the
\* centre (0,0), and (400,300) in the 800x600 viewport at the origin (0,0).
C8_NdcConversion ==
    (/\ lastOp.op = "pointer"
     /\ lastEvent.kind \in HitTested
     /\ viewport.width > 0 /\ viewport.height > 0
     /\ Inside(lastEvent, viewport))
    => LET cx == lastEvent.clientX
           cy == lastEvent.clientY
           vp == viewport
       IN /\ pointer.x = RatMinus(Rat(2 * (cx - vp.x), vp.width), 1)
          /\ pointer.y = RatMinus(Rat(2 * (vp.height - (cy - vp.y)), vp.height), 1)
          /\ RatLeq(MinusOne, pointer.x) /\ RatLeq(pointer.x, One)
          /\ RatLeq(MinusOne, pointer.y) /\ RatLeq(pointer.y, One)
          /\ (cx = vp.x /\ cy = vp.y + vp.height)
             => pointer = [x |-> MinusOne, y |-> MinusOne]
          /\ (cx = vp.x + vp.width /\ cy = vp.y)
             => pointer = [x |-> One, y |-> One]
          /\ (2 * (cx - vp.x) = vp.width /\ 2 * (cy - vp.y) = vp.height)
             => pointer = [x |-> Zero, y |-> Zero]
          /\ (vp = Rect(0, 0, 800, 600) /\ cx = 400 /\ cy = 300)
             => pointer = [x |-> Zero, y |-> Zero]

\* a click on the bottom-left corner of a viewport that a resize moved off
\* the origin
C8_Witness ==
    /\ lastOp.op = "pointer"
    /\ lastEvent.kind = "click"
    /\ viewport = Rect(1, 1, 2, 4)
    /\ lastEvent.clientX = 1 /\ lastEvent.clientY = 5
    /\ pointer = [x |-> MinusOne, y |-> MinusOne]

EmittedNames == [i \in DOMAIN emitted |-> emitted[i].name]

PoiNames == {"clickPoi", "mousemovePoi", "mouseoverPoi", "mouseoutPoi"}

\* what the hit test of the last event finds, or would find
MeshHit == lastEvent.hit # NoHit /\ lastEvent.hit.type = "Mesh"

\* C9: for a click, clickPoi is emitted iff the target is a geojson feature
\* of type immersive_poi, clickModel iff the hit test finds a mesh; nothing
\* else is emitted, and clickPoi comes before clickModel.
C9_ClickEvents ==
    (lastOp.op = "pointer" /\ lastEvent.kind = "click")
    => LET poi == /\ lastEvent.targetData.type = "geojson"
                  /\ lastEvent.targetData.ftype = "immersive_poi"
       IN EmittedNames = (IF poi THEN <<"clickPoi">> ELSE <<>>)
                         \o (IF MeshHit THEN <<"clickModel">> ELSE <<>>)

\* one click that emits both events
C9_Witness ==
    /\ lastOp.op = "pointer"
    /\ lastEvent.kind = "click"
    /\ EmittedNames = <<"clickPoi", "clickModel">>

NamedByOther(c, id) ==
    \E d \in DOMAIN calls :
        /\ d # c
        /\ calls[d].kind \in {"addModel", "addModels"}
        /\ id \in Range(calls[d].reqs)

\* C11: under waitAll, after an addModels batch of two in which one load
\* resolved and the other failed, removeModel of the loaded member's
\* identifier, which no other request names, changes neither the scene graph
\* nor the registry and requests no host redraw.
C11_RemoveAfterFailedBatchIsNoOp ==
    [][(/\ strategy = "waitAll"
        /\ lastOp'.op = "removeModel"
        /\ \E c \in DOMAIN calls :
               /\ calls[c].kind = "addModels"
               /\ Len(calls[c].reqs) = 2
               /\ Settled(calls[c])
               /\ Failed(calls[c]) # {}
               /\ \E k \in Resolved(calls[c]) : calls[c].reqs[k] = lastOp'.a
               /\ ~NamedByOther(c, lastOp'.a))
       => (fx' = <<>> /\ UNCHANGED <<scene, models>>)]_vars

\* C12: under dontWaitAll the models of an addModels batch are attached in
\* the order in which their loads complete, whatever the request order; the
\* step of each completed load is: hide its linked 2D features if it has
\* any, attach its model, request one redraw, and nothing else.
C12_RevealInCompletionOrder ==
    \A c \in DOMAIN calls :
        (strategy = "dontWaitAll" /\ calls[c].kind = "addModels")
        => LET call == calls[c]
           IN /\ Len(call.attached) = Cardinality(Resolved(call))
              /\ Range(call.attached) = {call.objs[k] : k \in Resolved(call)}
              /\ \A i, j \in DOMAIN call.attached :
                     i < j => call.attached[i].serial < call.attached[j].serial
              /\ \A k \in DOMAIN call.reqs :
                     lastOp = Op("loadResolve", c, k)
                     => LET linked == LinkedIds(call.reqs[k])
                        IN /\ call.objs[k].serial = nextSerial - 1
                           /\ call.attached[Len(call.attached)] = call.objs[k]
                           /\ fx = (IF linked # NoLinkedIds
                                    THEN <<FxHide(linked)>> ELSE <<>>)
                                   \o <<FxAttach(call.objs[k]), FxRerender>>

\* a batch of three whose loads completed in the order third, first, second
C12_Witness ==
    \E c \in DOMAIN calls :
        /\ strategy = "dontWaitAll"
        /\ calls[c].kind = "addModels"
        /\ Len(calls[c].reqs) = 3
        /\ calls[c].attached
           = <<calls[c].objs[3], calls[c].objs[1], calls[c].objs[2]>>

HasLinkedIds(id) == LinkedIds(id) # NoLinkedIds

\* C13: under waitAll, the step in which the last load of an addModels batch
\* resolves, all the others having resolved, issues one hide request for
\* each request with linked 2D features, in request order, then attaches
\* every model in the registry, then requests one redraw; every other step
\* of the batch, and every step of a batch with a failed load, issues
\* nothing.
C13_WaitAllRevealStep ==
    \A c \in DOMAIN calls :
        (strategy = "waitAll" /\ calls[c].kind = "addModels")
        => LET call == calls[c]
               linkedReqs == SelectSeq(call.reqs, HasLinkedIds)
           IN /\ \A k \in DOMAIN call.reqs :
                     lastOp = Op("loadResolve", c, k)
                     => IF Resolved(call) = DOMAIN call.reqs
                        THEN /\ fx = [i \in 1..Len(linkedReqs) |->
                                         FxHide(LinkedIds(linkedReqs[i]))]
                                     \o [i \in DOMAIN models |-> FxAttach(models[i])]
                                     \o <<FxRerender>>
                             /\ Range(models) \subseteq scene
                        ELSE fx = <<>>
              /\ \A k \in DOMAIN call.reqs :
                     lastOp = Op("loadFail", c, k) => fx = <<>>
              /\ Failed(call) # {} => call.attached = <<>>

\* the last load of a batch of three has resolved: two hide requests in
\* request order, then the three models of the registry, one of whose
\* identifiers a single addModel has loaded too, then one redraw
C13_Witness ==
    \E c \in DOMAIN calls :
        /\ strategy = "waitAll"
        /\ calls[c].kind = "addModels"
        /\ calls[c].reqs = <<3, 2, 1>>
        /\ lastOp.op = "loadResolve" /\ lastOp.a = c
        /\ Len(fx) = 6
        /\ fx[1] = FxHide(LinkedIds(3))
        /\ fx[2] = FxHide(LinkedIds(1))
        /\ fx[6] = FxRerender
        /\ \E d \in DOMAIN calls : calls[d].kind = "addModel"
                                   /\ Resolved(calls[d]) # {}

\* C14: no handler but that of the host's resize notification changes the
\* viewport rectangle; after a resize notification the rectangle the event
\* source hit-tests with and the one render draws with both equal the
\* container's current bounding rectangle, and the two are equal whenever
\* there is an event source.
C14_ViewportOnlyOnResize ==
    [][/\ lastOp'.op # "resize" => viewport' = viewport
       /\ lastOp'.op = "resize"
          => (viewport' = container' /\ hitViewport' = container')
       /\ handlersBound' => hitViewport' = viewport']_vars

\* a pointer event after the container moved away from the rectangle that
\* the last resize notification left: the viewport is still that rectangle
C14_Witness ==
    /\ lastOp.op = "pointer"
    /\ lastEvent.kind \in HitTested
    /\ viewport # InitialRect
    /\ viewport # container
    /\ hitViewport = viewport
    /\ models # <<>>

\* C15: the registry never holds two models under one identifier; when an
\* addModel load resolves for an identifier whose registered model is
\* attached, the registry entry becomes the new model, which is attached,
\* and the old node stays attached; removeModel(id) detaches the node of
\* the registry's current entry for id and no other.
C15_ReAddOverwrites ==
    [][/\ \A i, j \in DOMAIN models' :
              models'[i].modelId = models'[j].modelId => i = j
       /\ \A c \in DOMAIN calls :
              (/\ lastOp'.op = "loadResolve" /\ lastOp'.a = c
               /\ calls[c].kind = "addModel"
               /\ MapGet(models, calls[c].reqs[1]) \in scene)
              => LET id == calls[c].reqs[1]
                     old == MapGet(models, id)
                     new == MapGet(models', id)
                 IN /\ new # old
                    /\ new.serial = nextSerial
                    /\ Len(models') = Len(models)
                    /\ scene' = scene \cup {new}
                    /\ old \in scene'
       /\ lastOp'.op = "removeModel"
          => /\ scene' = scene \ {MapGet(models, lastOp'.a)}
             /\ models' = models]_vars

\* removeModel(id) has detached the node of the registry's entry while a
\* node that an earlier load of id attached is still in the scene graph
C15_Witness ==
    /\ lastOp.op = "removeModel"
    /\ MapGet(models, lastOp.a) # Undefined
    /\ MapGet(models, lastOp.a) \notin scene
    /\ \E m \in scene : m.modelId = lastOp.a

\* C16: removeModel leaves every add call and its loads as they are, those
\* in flight for the removed identifier included; when a load resolves its
\* model is the registry's entry for the identifier and, for addModel and
\* for addModels under dontWaitAll, is in the scene graph, whether or not
\* removeModel was called for the identifier while the load was in flight.
C16_NoCancellation ==
    [][/\ lastOp'.op = "removeModel"
          => (calls' = calls /\ nextSerial' = nextSerial)
       /\ \A c \in DOMAIN calls : \A k \in DOMAIN calls[c].reqs :
              lastOp' = Op("loadResolve", c, k)
              => LET new == MapGet(models', calls[c].reqs[k])
                 IN /\ new.serial = nextSerial
                    /\ new = calls'[c].objs[k]
                    /\ (calls[c].kind = "addModel" \/ strategy = "dontWaitAll")
                       => new \in scene']_vars

\* two add calls made before the ready signal name one identifier, so both
\* loads started together; the first to resolve was attached and then
\* detached by removeModel while the second was in flight; the second has
\* just resolved and its model is in the scene graph
C16_Witness ==
    \E c, d \in DOMAIN calls : \E kc \in DOMAIN calls[c].reqs :
        \E kd \in DOMAIN calls[d].reqs :
            /\ c # d
            /\ calls[c].early /\ calls[d].early
            /\ calls[c].kind \in {"addModel", "addModels"}
            /\ calls[d].kind \in {"addModel", "addModels"}
            /\ calls[c].reqs[kc] = calls[d].reqs[kd]
            /\ calls[c].objs[kc] \in Range(calls[c].attached)
            /\ calls[c].objs[kc] \notin scene
            /\ lastOp = Op("loadResolve", d, kd)
            /\ calls[d].objs[kd] \in scene

\* the step runs initThree, which fires the ready signal
FiresReady == lastOp'.op = "onAdd" \/ (lastOp'.op = "idle" /\ ~layerPending')

\* C17: initThree fires the ready signal only while the plugin is not ready,
\* so at most once, after the idle notification and with the camera built;
\* a call made before it stays pending, and in the step of the signal every
\* suspended call goes on: its loads start or its POI group is added. A
\* call that has gone on never does so again, its promise is rejected only
\* for a failed load, and, the host delivering idle and onAdd, every
\* suspended call goes on eventually.
C17_ReadyOnceAndCallsProceed ==
    /\ [](/\ ready => (idleFired /\ camera = CameraOfInitThree)
          /\ \A c \in DOMAIN calls :
                 /\ calls[c].pc = "waiting"
                    => (~ready /\ calls[c].early /\ calls[c].promise = "pending")
                 /\ calls[c].promise = "rejected" => Failed(calls[c]) # {})
    /\ [][/\ FiresReady => (~ready /\ ready')
          /\ ready => ready'
          /\ \A c \in DOMAIN calls :
                 /\ (FiresReady /\ calls[c].pc = "waiting")
                    => /\ calls'[c].pc # "waiting"
                       /\ calls'[c].promise # "rejected"
                       /\ \A k \in DOMAIN calls[c].reqs :
                              calls[c].kind \in {"addModel", "addModels"}
                              => calls'[c].loads[k] = "pending"
                       /\ calls[c].kind = "addPoiGroup"
                          => calls[c].reqs[1] \in poiGroups'
                 /\ calls[c].pc # "waiting"
                    => /\ calls'[c].pc = calls[c].pc
                       /\ calls'[c].reqs = calls[c].reqs
                       /\ \A k \in DOMAIN calls[c].loads :
                              calls[c].loads[k] # "pending"
                              => calls'[c].loads[k] = calls[c].loads[k]]_vars
    /\ \A c \in 1..MaxCalls :
           (c \in DOMAIN calls /\ calls[c].pc = "waiting")
           ~> (c \in DOMAIN calls /\ calls[c].pc # "waiting")

\* onAdd has just fired the ready signal; a batch and a POI group requested
\* before it have gone on
C17_Witness ==
    /\ lastOp.op = "onAdd"
    /\ ready
    /\ \E c, d \in DOMAIN calls :
           /\ calls[c].kind = "addModels" /\ calls[c].early
           /\ calls[c].pc = "loading"
           /\ calls[d].kind = "addPoiGroup" /\ calls[d].early
           /\ calls[d].pc = "done"

\* the controls that are on the map and show the levels of a model
Shown == {i \in DOMAIN controls : controls[i].levels # <<>>}

\* C18: at most one floor control is shown at a time: opening a floor
\* control tears the previous one down, so that the control opened last is
\* the only one on the map.
C18_SingleFloorControl ==
    /\ Cardinality(Shown) <= 1
    /\ Len(controls) <= 1

\* some call has attached the model m
EverAttached(m) == \E c \in DOMAIN calls : m \in Range(calls[c].attached)

\* C19: a model that was attached and is no longer in the scene graph,
\* removeModel having detached it, is not attached again by any step unless
\* an add request made after the one that loaded it names its identifier.
C19_RemovedStaysRemoved ==
    [][\A c \in DOMAIN calls : \A k \in DOMAIN calls[c].reqs :
           LET m == calls[c].objs[k]
           IN (/\ m # Undefined
               /\ EverAttached(m)
               /\ m \notin scene
               /\ m \in scene')
              => NamedLater(c, m.modelId)]_vars

\* C20: whether the host delivers the layer's onAdd inside addLayer or on a
\* later turn, a pointer event hit-tested after the ready signal is tested
\* against this.camera, the camera render writes the host matrices into.
C20_HitTestUsesRenderCamera ==
    (ready /\ lastOp.op = "pointer" /\ lastEvent.kind \in HitTested)
    => hitCamera = camera

====
